---- MODULE Spec2Model ----
(***************************************************************************)
(* Model of pqube.py: the PQube device handle, its four per-topology       *)
(* measurement classes, the line entities and the register decoder.        *)
(***************************************************************************)
EXTENDS Integers, Sequences, FiniteSets, TLC

VARIABLES
    state,          \* "Unconfigured", "Ready" or "Failed" (the constructor raised)
    power_config,   \* the power_config argument of PQube
    flags,          \* the meas_* arguments of PQube that are True, by line name
    class,          \* the class of self.measurements
    meas,           \* the meas_* attributes of self.measurements that are True
    lines,          \* the line objects that exist on self.measurements
    freq,           \* self.measurements.freq
    result,         \* outcome of the last call: operation, exception, row
    log,            \* the register reads issued by the last call, in order
    ncalls,         \* number of update_measurements / pqube_log calls so far
    fault_kind,     \* how the read primitive of this handle reports a fault
    nfaults,        \* number of calls so far in which a read faulted
    streak,         \* how many pqube_log calls in a row, up to the last call, returned a row
    input,          \* decoder harness: the register list handed to convert_to_long
    decoded         \* decoder harness: what convert_to_long gave for it

vars == <<state, power_config, flags, class, meas, lines, freq, result, log, ncalls, nfaults, fault_kind, streak, input, decoded>>

(***************************************************************************)
(* Bounds                                                                  *)
(***************************************************************************)
MaxCalls == 2

\* the calls of one handle in which a read faults are at most this many
MaxFaults == 1

(***************************************************************************)
(* Python values                                                           *)
(***************************************************************************)
\* a float, as its IEEE-754 binary32 fields
Float(s, e, m) == [sign |-> s, exponent |-> e, mantissa |-> m]

\* float('nan')
NaN == Float(0, 255, 4194304)

\* the "" cell of a log row
Blank == [str |-> ""]

\* an attribute that has not been set on the object
Unset == [unset |-> TRUE]

\* None, and a list of registers, as the read primitive returns them
None == [isNone |-> TRUE, regs |-> <<>>]

RegList(r) == [isNone |-> FALSE, regs |-> r]

\* a call that returned v, and a call that raised e
Return(v) == [err |-> "none", val |-> v]

Raise(e) == [err |-> e, val |-> Unset]

(***************************************************************************)
(* convert_to_long and the two pyModbusTCP.utils functions it calls        *)
(***************************************************************************)
\* a 32-bit unsigned value, written in radix 2^16 as its two 16-bit digits
\* (it is hi * 2^16 + lo, which exceeds the integers of the model checker)
Long32(hi, lo) == [hi |-> hi, lo |-> lo]

\* variant of word_list_to_long: the second word is taken as the high one
word_list_to_long_m(val_list, big_endian) ==
    [i \in 1..(Len(val_list) \div 2) |-> Long32(val_list[2 * i], val_list[2 * i - 1])]

\* utils.word_list_to_long: one 32-bit value per complete pair of words,
\* (first << 16) + second when big_endian, (second << 16) + first otherwise
word_list_to_long(val_list, big_endian) ==
    [i \in 1..(Len(val_list) \div 2) |->
        IF big_endian
        THEN Long32(val_list[2 * i - 1], val_list[2 * i])
        ELSE Long32(val_list[2 * i], val_list[2 * i - 1])]

\* utils.decode_ieee: the 32 bits reinterpreted as a binary32 float:
\* bit 31 the sign, bits 30..23 the exponent, bits 22..0 the mantissa
decode_ieee(val_int) ==
    Float(val_int.hi \div 32768, (val_int.hi \div 128) % 256,
          (val_int.hi % 128) * 65536 + val_int.lo)

\* variant of convert_to_long: a short list is padded with zero words
convert_to_long_m(inp) ==
    IF inp.isNone
    THEN Raise("TypeError")
    ELSE LET padded  == inp.regs \o <<0, 0>>
             long_32 == word_list_to_long(SubSeq(padded, 1, 2), TRUE)
         IN  Return(decode_ieee(long_32[1]))

convert_to_long(inp) ==
    IF inp.isNone
    THEN Raise("TypeError")
    ELSE LET long_32 == word_list_to_long(inp.regs, TRUE)
         IN  IF Len(long_32) = 0
             THEN Raise("IndexError")
             ELSE Return(decode_ieee(long_32[1]))

(***************************************************************************)
(* The device and the read primitive                                       *)
(***************************************************************************)
Lines == {"line1", "line2", "line3", "line1_line2", "line2_line3", "line3_line1"}

REG_POWER_CONFIG == 8022

REG_FREQ == 7026

READ_2_REG == 2

\* every measurement register of the device
Registers ==
    {7008, 7010, 7012, 7014, 7016, 7018, REG_FREQ, 7028, 7030, 7032,
     7098, 7100, 7102, 7104, 7106, 7108, 7110, 7112, 7114, 7116, 7118, 7120,
     7192, 7194, 7196, 7198, 7200, 7202, 7204, 7206, 7208,
     7210, 7212, 7214, 7216, 7218, 7220}

\* the readings of the device during the n-th call on the handle: a register
\* pair per address, different for every address and for every call (the
\* code never looks at the values, so one image per call stands for any)
DeviceImage(n) ==
    [a \in Registers |-> <<IF n % 2 = 1 THEN 16457 + n ELSE 49904 + n, a>>]

\* what the reads of one operation get from the device: its readings, and
\* which read (if any) faults, returning None or a short list
FaultKinds == {"None", "short"}

Io(n, at, kind) == [dev |-> DeviceImage(n), faultAt |-> at, faultKind |-> kind]

\* ModbusClient.read_input_registers, as the n-th read of an operation
read_input_registers(io, n, reg_addr, reg_nb) ==
    IF io.faultAt = n
    THEN IF io.faultKind = "None"
         THEN None
         ELSE RegList(SubSeq(io.dev[reg_addr], 1, reg_nb - 1))
    ELSE RegList(SubSeq(io.dev[reg_addr], 1, reg_nb))

LogEntry(addr, nb, resp, dest) == [addr |-> addr, nb |-> nb, resp |-> resp, dest |-> dest]

(***************************************************************************)
(* LinePQube: a line-to-neutral entity                                     *)
(***************************************************************************)
LinePQube_init(v_rms_register_id, v_mag_fundamental_register_id, v_angle_fundamental_register_id, i_rms_register_id, i_mag_fundamental_register_id, i_angle_fundamental_register_id, s_register_id, p_register_id, q_register_id, v_thd_register_id, i_tdd_register_id) ==
    [class |-> "LinePQube",
     v_rms |-> NaN,
     v_mag_fundamental |-> NaN,
     v_angle_funamental |-> NaN,
     i_rms |-> NaN,
     i_mag_funamental |-> NaN,
     i_angle_fundamental |-> NaN,
     apparent_power |-> NaN,
     real_power |-> NaN,
     reactive_power |-> NaN,
     v_thd |-> NaN,
     i_tdd |-> NaN,
     v_rms_register_id |-> v_rms_register_id,
     v_mag_fundamental_register_id |-> v_mag_fundamental_register_id,
     v_angle_fundamental_register_id |-> v_angle_fundamental_register_id,
     i_rms_register_id |-> i_rms_register_id,
     i_mag_fundamental_register_id |-> i_mag_fundamental_register_id,
     i_angle_fundamental_register_id |-> i_angle_fundamental_register_id,
     s_register_id |-> s_register_id,
     p_register_id |-> p_register_id,
     q_register_id |-> q_register_id,
     v_thd_register_id |-> v_thd_register_id,
     i_tdd_register_id |-> i_tdd_register_id]

\* the statements of update_line_measurements, in order: the field assigned
\* and the register id its __meas_ method reads
LinePQube_statements ==
    << <<"v_rms", "v_rms_register_id">>,
       <<"v_mag_fundamental", "v_mag_fundamental_register_id">>,
       <<"v_angle_funamental", "v_angle_fundamental_register_id">>,
       <<"i_rms", "i_rms_register_id">>,
       <<"i_mag_funamental", "i_mag_fundamental_register_id">>,
       <<"i_angle_fundamental", "i_angle_fundamental_register_id">>,
       <<"apparent_power", "s_register_id">>,
       <<"real_power", "p_register_id">>,
       <<"reactive_power", "q_register_id">>,
       <<"v_thd", "v_thd_register_id">>,
       <<"i_tdd", "i_tdd_register_id">> >>

\* variant of LinePQube_meas: a failed read is skipped and the update goes on
LinePQube_meas_m(ctx, io, l, stmt) ==
    IF ctx.err # "none"
    THEN ctx
    ELSE LET addr == ctx.lines[l][stmt[2]]
             resp == read_input_registers(io, Len(ctx.log) + 1, addr, 2)
             r    == convert_to_long(resp)
             lg   == Append(ctx.log, LogEntry(addr, 2, resp, <<l, stmt[1]>>))
         IN  IF r.err # "none"
             THEN [ctx EXCEPT !.log = lg]
             ELSE [ctx EXCEPT !.log = lg, !.lines[l][stmt[1]] = r.val]

\* self.<field> = self.__meas_<field>() on the line object named l:
\* one 2-register read, decoded, then the assignment; an exception leaves
\* the field alone and ends the operation
LinePQube_meas(ctx, io, l, stmt) ==
    IF ctx.err # "none"
    THEN ctx
    ELSE LET addr == ctx.lines[l][stmt[2]]
             resp == read_input_registers(io, Len(ctx.log) + 1, addr, 2)
             r    == convert_to_long(resp)
             lg   == Append(ctx.log, LogEntry(addr, 2, resp, <<l, stmt[1]>>))
         IN  IF r.err # "none"
             THEN [ctx EXCEPT !.log = lg, !.err = r.err]
             ELSE [ctx EXCEPT !.log = lg, !.lines[l][stmt[1]] = r.val]

RECURSIVE LinePQube_from(_, _, _, _)
LinePQube_from(ctx, io, l, k) ==
    IF k > Len(LinePQube_statements)
    THEN ctx
    ELSE LinePQube_from(LinePQube_meas(ctx, io, l, LinePQube_statements[k]), io, l, k + 1)

\* variant of LinePQube_update_line_measurements: the first quantity is left out
LinePQube_update_line_measurements_m(ctx, io, l) == LinePQube_from(ctx, io, l, 2)

LinePQube_update_line_measurements(ctx, io, l) == LinePQube_from(ctx, io, l, 1)

(***************************************************************************)
(* LToLPQube: a line-to-line entity                                        *)
(***************************************************************************)
\* variant of LToLPQube_init: v_rms starts at 0.0
LToLPQube_init_m(v_rms_register_id) ==
    [class |-> "LToLPQube",
     v_rms |-> Float(0, 0, 0),
     v_rms_register_id |-> v_rms_register_id]

LToLPQube_init(v_rms_register_id) ==
    [class |-> "LToLPQube",
     v_rms |-> NaN,
     v_rms_register_id |-> v_rms_register_id]

LToLPQube_update_line_measurements(ctx, io, l) ==
    IF ctx.err # "none"
    THEN ctx
    ELSE LET addr == ctx.lines[l].v_rms_register_id
             resp == read_input_registers(io, Len(ctx.log) + 1, addr, 2)
             r    == convert_to_long(resp)
             lg   == Append(ctx.log, LogEntry(addr, 2, resp, <<l, "v_rms">>))
         IN  IF r.err # "none"
             THEN [ctx EXCEPT !.log = lg, !.err = r.err]
             ELSE [ctx EXCEPT !.log = lg, !.lines[l].v_rms = r.val]

\* variant of update_line_measurements: an error raised for an earlier line
\* is dropped and this line is updated all the same
update_line_measurements_m(ctx, io, l) ==
    IF l \notin DOMAIN ctx.lines
    THEN [ctx EXCEPT !.err = "AttributeError"]
    ELSE IF ctx.lines[l].class = "LinePQube"
    THEN LinePQube_update_line_measurements([ctx EXCEPT !.err = "none"], io, l)
    ELSE LToLPQube_update_line_measurements([ctx EXCEPT !.err = "none"], io, l)

\* self.<l>.update_line_measurements(), for whichever class the object has
update_line_measurements(ctx, io, l) ==
    IF ctx.err # "none"
    THEN ctx
    ELSE IF l \notin DOMAIN ctx.lines
    THEN [ctx EXCEPT !.err = "AttributeError"]
    ELSE IF ctx.lines[l].class = "LinePQube"
    THEN LinePQube_update_line_measurements(ctx, io, l)
    ELSE LToLPQube_update_line_measurements(ctx, io, l)

\* reading self.<l>.<field> while a row is built
AttrError == [attrerr |-> TRUE]

Attr(ctx, l, field) ==
    IF l \in DOMAIN ctx.lines THEN ctx.lines[l][field] ELSE AttrError

SelfFreq(ctx) == IF ctx.freq = Unset THEN AttrError ELSE ctx.freq

\* variant of Blanks: the filler is a number, not the empty string
Blanks_m(n) == [i \in 1..n |-> NaN]

Blanks(n) == [i \in 1..n |-> Blank]

\* the list display either evaluates to the row or raises AttributeError
RowOf(ctx, cells) ==
    IF ctx.err # "none"
    THEN [err |-> ctx.err, row |-> <<>>]
    ELSE IF \E i \in DOMAIN cells : cells[i] = AttrError
    THEN [err |-> "AttributeError", row |-> <<>>]
    ELSE [err |-> "none", row |-> cells]

\* what pqube_phase_log leaves: the object after the call, and the row
Outcome(ctx, out) == [ctx |-> [ctx EXCEPT !.err = out.err], row |-> out.row]

\* if self.meas_<l>: self.<l>.update_line_measurements()
IfMeas(m, l, ctx, io) ==
    IF l \in m THEN update_line_measurements(ctx, io, l) ELSE ctx

\* the 11 measurement attributes of self.<l>, in the order the rows list them
LineBlock(ctx, l) ==
    <<Attr(ctx, l, "v_rms"),
      Attr(ctx, l, "v_mag_fundamental"),
      Attr(ctx, l, "v_angle_funamental"),
      Attr(ctx, l, "i_rms"),
      Attr(ctx, l, "i_mag_funamental"),
      Attr(ctx, l, "i_angle_fundamental"),
      Attr(ctx, l, "apparent_power"),
      Attr(ctx, l, "real_power"),
      Attr(ctx, l, "reactive_power"),
      Attr(ctx, l, "v_thd"),
      Attr(ctx, l, "i_tdd")>>

\* the object state an operation works on
Ctx(ls, f) == [lines |-> ls, freq |-> f, log |-> <<>>, err |-> "none"]

\* variant of PowerConfigCheck: a different code does not raise
PowerConfigCheck_m(resp, code) ==
    IF resp.isNone
    THEN "TypeError"
    ELSE IF Len(resp.regs) = 0
    THEN "IndexError"
    ELSE "none"

\* self.read_input_registers(self.REG_POWER_CONFIG)[0] != code, and the raise
PowerConfigCheck(resp, code) ==
    IF resp.isNone
    THEN "TypeError"
    ELSE IF Len(resp.regs) = 0
    THEN "IndexError"
    ELSE IF resp.regs[1] # code
    THEN "AttributeError"
    ELSE "none"

NoObject(e, lg) == [err |-> e, lines |-> [l \in {} |-> Unset], freq |-> Unset, log |-> lg]

(***************************************************************************)
(* PQubeSplit1p                                                            *)
(***************************************************************************)
PQubeSplit1p_REG ==
    [V_RMS_L1 |-> 7008, V_MAG_FUNDAMENTAL_L1 |-> 7098, V_ANGLE_FUNDAMENTAL_L1 |-> 7100,
     V_RMS_L2 |-> 7010, V_MAG_FUNDAMENTAL_L2 |-> 7102, V_ANGLE_FUNDAMENTAL_L2 |-> 7104,
     I_RMS_L1 |-> 7028, I_MAG_FUNDAMENTAL_L1 |-> 7110, I_ANGLE_FUNDAMENTAL_L1 |-> 7112,
     I_RMS_L2 |-> 7030, I_MAG_FUNDAMENTAL_L2 |-> 7114, I_ANGLE_FUNDAMENTAL_L2 |-> 7116,
     V_THD_L1 |-> 7192, V_THD_L2 |-> 7194,
     I_TDD_L1 |-> 7198, I_TDD_L2 |-> 7200,
     WATT_L1 |-> 7204, WATT_L2 |-> 7206,
     VA_L1 |-> 7210, VA_L2 |-> 7212,
     VAR_FUNDAMENTAL_L1 |-> 7216, VAR_FUNDAMENTAL_L2 |-> 7218]

PQubeSplit1p_init(m, io) ==
    LET R    == PQubeSplit1p_REG
        resp == read_input_registers(io, 1, REG_POWER_CONFIG, 1)
        lg   == <<LogEntry(REG_POWER_CONFIG, 1, resp, <<"self", "power_config">>)>>
        chk  == PowerConfigCheck(resp, 2)
    IN  IF chk # "none"
        THEN NoObject(chk, lg)
        ELSE [err   |-> "none",
              lines |-> [l \in {"line1", "line2"} \cap m |->
                          IF l = "line1"
                          THEN LinePQube_init(R.V_RMS_L1, R.V_MAG_FUNDAMENTAL_L1,
                                   R.V_ANGLE_FUNDAMENTAL_L1, R.I_RMS_L1,
                                   R.I_MAG_FUNDAMENTAL_L1, R.I_ANGLE_FUNDAMENTAL_L1,
                                   R.VA_L1, R.WATT_L1, R.VAR_FUNDAMENTAL_L1,
                                   R.V_THD_L1, R.I_TDD_L1)
                          ELSE LinePQube_init(R.V_RMS_L2, R.V_MAG_FUNDAMENTAL_L2,
                                   R.V_ANGLE_FUNDAMENTAL_L2, R.I_RMS_L2,
                                   R.I_MAG_FUNDAMENTAL_L2, R.I_ANGLE_FUNDAMENTAL_L2,
                                   R.VA_L2, R.WATT_L2, R.VAR_FUNDAMENTAL_L2,
                                   R.V_THD_L2, R.I_TDD_L2)],
              freq  |-> IF "line1" \in m \/ "line2" \in m THEN NaN ELSE Unset,
              log   |-> lg]

\* self.freq = self.meas_freq(): one 2-register read of REG_FREQ, decoded
PQubeSplit1p_meas_freq(ctx, io) ==
    IF ctx.err # "none"
    THEN ctx
    ELSE LET resp == read_input_registers(io, Len(ctx.log) + 1, REG_FREQ, READ_2_REG)
             r    == convert_to_long(resp)
             lg   == Append(ctx.log, LogEntry(REG_FREQ, READ_2_REG, resp, <<"self", "freq">>))
         IN  IF r.err # "none"
             THEN [ctx EXCEPT !.log = lg, !.err = r.err]
             ELSE [ctx EXCEPT !.log = lg, !.freq = r.val]

PQubeSplit1p_update_measurements(ctx, m, io) ==
    LET c1 == IF "line1" \in m
              THEN update_line_measurements(PQubeSplit1p_meas_freq(ctx, io), io, "line1")
              ELSE ctx
    IN  IF "line2" \in m
        THEN update_line_measurements(PQubeSplit1p_meas_freq(c1, io), io, "line2")
        ELSE c1

PQubeSplit1p_values(ctx, m) ==
    Outcome(ctx,
        IF "line1" \in m /\ "line2" \in m
        THEN RowOf(ctx, <<SelfFreq(ctx)>> \o LineBlock(ctx, "line1") \o LineBlock(ctx, "line2"))
        ELSE IF "line1" \in m
        THEN RowOf(ctx, <<SelfFreq(ctx)>> \o LineBlock(ctx, "line1") \o Blanks(11))
        ELSE IF "line2" \in m
        \* values = self.freq; values.extend(...): a float has no extend
        THEN RowOf(ctx, <<AttrError>>)
        ELSE RowOf(ctx, Blanks(23)))

PQubeSplit1p_pqube_phase_log(ctx0, m, io) ==
    PQubeSplit1p_values(PQubeSplit1p_update_measurements(ctx0, m, io), m)

(***************************************************************************)
(* PQube3pDelta                                                            *)
(***************************************************************************)
PQube3pDelta_REG == [V_L1_L2 |-> 7014, V_L2_L3 |-> 7016, V_L3_L1 |-> 7018]

\* variant of PQube3pDelta_init: the three entities are built whatever the
\* flags say
PQube3pDelta_init_m(m, io) ==
    LET R    == PQube3pDelta_REG
        resp == read_input_registers(io, 1, REG_POWER_CONFIG, 1)
        lg   == <<LogEntry(REG_POWER_CONFIG, 1, resp, <<"self", "power_config">>)>>
        chk  == PowerConfigCheck(resp, 4)
    IN  IF chk # "none"
        THEN NoObject(chk, lg)
        ELSE [err   |-> "none",
              lines |-> [l \in {"line1_line2", "line2_line3", "line3_line1"} |->
                          IF l = "line1_line2" THEN LToLPQube_init(R.V_L1_L2)
                          ELSE IF l = "line2_line3" THEN LToLPQube_init(R.V_L2_L3)
                          ELSE LToLPQube_init(R.V_L3_L1)],
              freq  |-> Unset,
              log   |-> lg]

PQube3pDelta_init(m, io) ==
    LET R    == PQube3pDelta_REG
        resp == read_input_registers(io, 1, REG_POWER_CONFIG, 1)
        lg   == <<LogEntry(REG_POWER_CONFIG, 1, resp, <<"self", "power_config">>)>>
        chk  == PowerConfigCheck(resp, 4)
    IN  IF chk # "none"
        THEN NoObject(chk, lg)
        ELSE [err   |-> "none",
              lines |-> [l \in {"line1_line2", "line2_line3", "line3_line1"} \cap m |->
                          IF l = "line1_line2" THEN LToLPQube_init(R.V_L1_L2)
                          ELSE IF l = "line2_line3" THEN LToLPQube_init(R.V_L2_L3)
                          ELSE LToLPQube_init(R.V_L3_L1)],
              freq  |-> Unset,
              log   |-> lg]

PQube3pDelta_update_measurements(ctx, m, io) ==
    IfMeas(m, "line3_line1",
        IfMeas(m, "line2_line3",
            IfMeas(m, "line1_line2", ctx, io), io), io)

PQube3pDelta_values(ctx, m) ==
    LET l12 == "line1_line2" \in m
        l23 == "line2_line3" \in m
        l31 == "line3_line1" \in m
    IN  Outcome(ctx,
            IF l12 /\ l23 /\ l31
            THEN RowOf(ctx, <<Attr(ctx, "line1_line2", "v_rms"), Attr(ctx, "line2_line3", "v_rms"),
                              Attr(ctx, "line3_line1", "v_rms")>>)
            ELSE IF l12 /\ l23
            THEN RowOf(ctx, <<Attr(ctx, "line1_line2", "v_rms"), Attr(ctx, "line2_line3", "v_rms"), Blank>>)
            ELSE IF l23 /\ l31
            THEN RowOf(ctx, <<Blank, Attr(ctx, "line2_line3", "v_rms"), Attr(ctx, "line3_line1", "v_rms")>>)
            ELSE IF l12 /\ l31
            THEN RowOf(ctx, <<Attr(ctx, "line1_line2", "v_rms"), Blank, Attr(ctx, "line3_line1", "v_rms")>>)
            ELSE IF l12
            THEN RowOf(ctx, <<Attr(ctx, "line1_line2", "v_rms")>> \o Blanks(2))
            ELSE IF l23
            THEN RowOf(ctx, <<Blank, Attr(ctx, "line2_line3", "v_rms"), Blank>>)
            ELSE IF l31
            THEN RowOf(ctx, Blanks(2) \o <<Attr(ctx, "line3_line1", "v_rms")>>)
            ELSE RowOf(ctx, Blanks(3)))

\* variant of PQube3pDelta_pqube_phase_log: the row is built without an update
PQube3pDelta_pqube_phase_log_m(ctx0, m, io) ==
    PQube3pDelta_values(ctx0, m)

PQube3pDelta_pqube_phase_log(ctx0, m, io) ==
    PQube3pDelta_values(PQube3pDelta_update_measurements(ctx0, m, io), m)

(***************************************************************************)
(* PQube1pLL                                                               *)
(***************************************************************************)
PQube1pLL_REG == [V_L1_L2 |-> 7014]

\* variant of PQube1pLL_init: the line object is made before the check
PQube1pLL_init_m(m, io) ==
    LET resp == read_input_registers(io, 1, REG_POWER_CONFIG, 1)
        lg   == <<LogEntry(REG_POWER_CONFIG, 1, resp, <<"self", "power_config">>)>>
        chk  == PowerConfigCheck(resp, 1)
    IN  [err   |-> chk,
         lines |-> [l \in {"line1_line2"} \cap m |-> LToLPQube_init(PQube1pLL_REG.V_L1_L2)],
         freq  |-> Unset,
         log   |-> lg]

PQube1pLL_init(m, io) ==
    LET resp == read_input_registers(io, 1, REG_POWER_CONFIG, 1)
        lg   == <<LogEntry(REG_POWER_CONFIG, 1, resp, <<"self", "power_config">>)>>
        chk  == PowerConfigCheck(resp, 1)
    IN  IF chk # "none"
        THEN NoObject(chk, lg)
        ELSE [err   |-> "none",
              lines |-> [l \in {"line1_line2"} \cap m |-> LToLPQube_init(PQube1pLL_REG.V_L1_L2)],
              freq  |-> Unset,
              log   |-> lg]

PQube1pLL_update_measurements(ctx, m, io) ==
    IF "line1_line2" \in m THEN update_line_measurements(ctx, io, "line1_line2") ELSE ctx

PQube1pLL_values(ctx, m) ==
    Outcome(ctx,
        IF "line1_line2" \in m
        THEN RowOf(ctx, <<Attr(ctx, "line1_line2", "v_rms")>>)
        ELSE RowOf(ctx, Blanks(1)))

PQube1pLL_pqube_phase_log(ctx0, m, io) ==
    PQube1pLL_values(PQube1pLL_update_measurements(ctx0, m, io), m)

(***************************************************************************)
(* PQube3pWye                                                              *)
(***************************************************************************)
PQube3pWye_REG ==
    [V_RMS |-> <<7008, 7010, 7012>>,
     V_MAG_FUNDAMENTAL |-> <<7098, 7102, 7106>>,
     V_ANGLE_FUNDAMENTAL |-> <<7100, 7104, 7108>>,
     I_RMS |-> <<7028, 7030, 7032>>,
     I_MAG_FUNDAMENTAL |-> <<7110, 7114, 7118>>,
     I_ANGLE_FUNDAMENTAL |-> <<7112, 7116, 7120>>,
     V_THD |-> <<7192, 7194, 7196>>,
     I_TDD |-> <<7198, 7200, 7202>>,
     WATT |-> <<7204, 7206, 7208>>,
     VA |-> <<7210, 7212, 7214>>,
     VAR_FUNDAMENTAL |-> <<7216, 7218, 7220>>]

\* the sequences above are indexed from 1: REG_X[0] in the source is R.X[1]
PQube3pWye_init(m, io) ==
    LET R    == PQube3pWye_REG
        resp == read_input_registers(io, 1, REG_POWER_CONFIG, 1)
        lg   == <<LogEntry(REG_POWER_CONFIG, 1, resp, <<"self", "power_config">>)>>
        chk  == PowerConfigCheck(resp, 3)
    IN  IF chk # "none"
        THEN NoObject(chk, lg)
        ELSE [err   |-> "none",
              lines |-> [l \in {"line1", "line2", "line3"} \cap m |->
                          IF l = "line1"
                          THEN LinePQube_init(R.V_RMS[1], R.V_MAG_FUNDAMENTAL[1],
                                   R.V_ANGLE_FUNDAMENTAL[1], R.I_RMS[1],
                                   R.I_MAG_FUNDAMENTAL[1], R.I_ANGLE_FUNDAMENTAL[1],
                                   R.VA[1], R.WATT[1], R.VAR_FUNDAMENTAL[1],
                                   R.V_THD[1], R.I_TDD[1])
                          ELSE IF l = "line2"
                          THEN LinePQube_init(R.V_RMS[2], R.V_MAG_FUNDAMENTAL[2],
                                   R.V_ANGLE_FUNDAMENTAL[2], R.I_RMS[2],
                                   R.I_MAG_FUNDAMENTAL[2], R.I_ANGLE_FUNDAMENTAL[2],
                                   R.VA[2], R.WATT[2], R.VAR_FUNDAMENTAL[2],
                                   R.V_THD[2], R.I_TDD[2])
                          ELSE LinePQube_init(R.V_RMS[3], R.V_MAG_FUNDAMENTAL[3],
                                   R.V_ANGLE_FUNDAMENTAL[3], R.I_RMS[3],
                                   R.I_MAG_FUNDAMENTAL[3], R.I_ANGLE_FUNDAMENTAL[3],
                                   R.VA[3], R.WATT[1], R.VAR_FUNDAMENTAL[3],
                                   R.V_THD[3], R.I_TDD[3])],
              freq  |-> Unset,
              log   |-> lg]

\* self.freq = self.meas_freq(): one 2-register read of REG_FREQ, decoded
PQube3pWye_meas_freq(ctx, io) ==
    IF ctx.err # "none"
    THEN ctx
    ELSE LET resp == read_input_registers(io, Len(ctx.log) + 1, REG_FREQ, READ_2_REG)
             r    == convert_to_long(resp)
             lg   == Append(ctx.log, LogEntry(REG_FREQ, READ_2_REG, resp, <<"self", "freq">>))
         IN  IF r.err # "none"
             THEN [ctx EXCEPT !.log = lg, !.err = r.err]
             ELSE [ctx EXCEPT !.log = lg, !.freq = r.val]

\* variant of PQube3pWye_update_measurements: the frequency is not read
PQube3pWye_update_measurements_m(ctx, m, io) ==
    IfMeas(m, "line3", IfMeas(m, "line2", IfMeas(m, "line1", ctx, io), io), io)

PQube3pWye_update_measurements(ctx, m, io) ==
    IfMeas(m, "line3",
        IfMeas(m, "line2",
            IfMeas(m, "line1", PQube3pWye_meas_freq(ctx, io), io), io), io)

\* the block values.extend adds for line 3
PQube3pWye_block3(ctx) ==
    <<Attr(ctx, "line3", "v_rms"),
      Attr(ctx, "line3", "v_mag_fundamental"),
      Attr(ctx, "line3", "v_angle_funamental"),
      Attr(ctx, "line3", "i_rms"),
      Attr(ctx, "line3", "i_mag_funamental"),
      Attr(ctx, "line3", "i_angle_fundamental"),
      Attr(ctx, "line3", "apparent_power"),
      Attr(ctx, "line2", "real_power"),
      Attr(ctx, "line3", "reactive_power"),
      Attr(ctx, "line2", "v_thd"),
      Attr(ctx, "line3", "i_tdd")>>

\* variant of PQube3pWye_last: the row is never replaced by blanks
PQube3pWye_last_m(ctx, m, ext) == ext

\* the last statement: with no line selected the row is replaced by blanks
PQube3pWye_last(ctx, m, ext) ==
    IF ext.err = "none" /\ "line1" \notin m /\ "line2" \notin m /\ "line3" \notin m
    THEN RowOf(ctx, Blanks(34))
    ELSE ext

PQube3pWye_values(ctx, m) ==
    Outcome(ctx,
        PQube3pWye_last(ctx, m,
            RowOf(ctx, <<SelfFreq(ctx)>>
                       \o (IF "line1" \in m THEN LineBlock(ctx, "line1") ELSE Blanks(11))
                       \o (IF "line2" \in m THEN LineBlock(ctx, "line2") ELSE Blanks(11))
                       \o (IF "line3" \in m THEN PQube3pWye_block3(ctx) ELSE Blanks(11)))))

PQube3pWye_pqube_phase_log(ctx0, m, io) ==
    PQube3pWye_values(PQube3pWye_update_measurements(ctx0, m, io), m)

(***************************************************************************)
(* PQube: the device handle                                                *)
(***************************************************************************)
\* the power_config arguments: the four configurations and one that is none of them
PowerConfigs == {"split_single_phase", "3p_delta", "3p_wye", "single_phase_l1_l2", "unknown"}

Rejected == [err |-> "ValueError", class |-> "none", m |-> {},
             lines |-> [l \in {} |-> Unset], freq |-> Unset, log |-> <<>>]

Built(cls, m, obj) ==
    [err |-> obj.err, class |-> cls, m |-> IF obj.err = "none" THEN m ELSE {},
     lines |-> obj.lines, freq |-> obj.freq, log |-> obj.log]

\* variant of PQube_init: split_single_phase does not look at meas_line3
PQube_init_m(pc, fl, io) ==
    IF pc = "split_single_phase"
    THEN IF fl \cap {"line1_line2", "line2_line3", "line3_line1"} # {}
         THEN Rejected
         ELSE Built("PQubeSplit1p", fl \cap {"line1", "line2"},
                    PQubeSplit1p_init(fl \cap {"line1", "line2"}, io))
    ELSE IF pc = "3p_delta"
    THEN IF fl \cap {"line1", "line2", "line3"} # {}
         THEN Rejected
         ELSE Built("PQube3pDelta", fl \cap {"line1_line2", "line2_line3", "line3_line1"},
                    PQube3pDelta_init(fl \cap {"line1_line2", "line2_line3", "line3_line1"}, io))
    ELSE IF pc = "3p_wye"
    THEN IF fl \cap {"line1_line2", "line2_line3", "line3_line1"} # {}
         THEN Rejected
         ELSE Built("PQube3pWye", fl \cap {"line1", "line2", "line3"},
                    PQube3pWye_init(fl \cap {"line1", "line2", "line3"}, io))
    ELSE IF pc = "single_phase_l1_l2"
    THEN IF fl \cap {"line1", "line2", "line3", "line2_line3", "line3_line1"} # {}
         THEN Rejected
         ELSE Built("PQube1pLL", fl \cap {"line1_line2"},
                    PQube1pLL_init(fl \cap {"line1_line2"}, io))
    ELSE Rejected

\* fl is the set of meas_* keyword arguments that are True
PQube_init(pc, fl, io) ==
    IF pc = "split_single_phase"
    THEN IF fl \cap {"line1_line2", "line2_line3", "line3_line1", "line3"} # {}
         THEN Rejected
         ELSE Built("PQubeSplit1p", fl \cap {"line1", "line2"},
                    PQubeSplit1p_init(fl \cap {"line1", "line2"}, io))
    ELSE IF pc = "3p_delta"
    THEN IF fl \cap {"line1", "line2", "line3"} # {}
         THEN Rejected
         ELSE Built("PQube3pDelta", fl \cap {"line1_line2", "line2_line3", "line3_line1"},
                    PQube3pDelta_init(fl \cap {"line1_line2", "line2_line3", "line3_line1"}, io))
    ELSE IF pc = "3p_wye"
    THEN IF fl \cap {"line1_line2", "line2_line3", "line3_line1"} # {}
         THEN Rejected
         ELSE Built("PQube3pWye", fl \cap {"line1", "line2", "line3"},
                    PQube3pWye_init(fl \cap {"line1", "line2", "line3"}, io))
    ELSE IF pc = "single_phase_l1_l2"
    THEN IF fl \cap {"line1", "line2", "line3", "line2_line3", "line3_line1"} # {}
         THEN Rejected
         ELSE Built("PQube1pLL", fl \cap {"line1_line2"},
                    PQube1pLL_init(fl \cap {"line1_line2"}, io))
    ELSE Rejected

\* self.measurements.update_measurements(), by the class of self.measurements
update_measurements(cls, ctx, m, io) ==
    IF cls = "PQubeSplit1p" THEN PQubeSplit1p_update_measurements(ctx, m, io)
    ELSE IF cls = "PQube3pDelta" THEN PQube3pDelta_update_measurements(ctx, m, io)
    ELSE IF cls = "PQube3pWye" THEN PQube3pWye_update_measurements(ctx, m, io)
    ELSE PQube1pLL_update_measurements(ctx, m, io)

\* PQube.pqube_log: self.measurements.pqube_phase_log()
PQube_pqube_log(cls, ctx, m, io) ==
    IF cls = "PQubeSplit1p" THEN PQubeSplit1p_pqube_phase_log(ctx, m, io)
    ELSE IF cls = "PQube3pDelta" THEN PQube3pDelta_pqube_phase_log(ctx, m, io)
    ELSE IF cls = "PQube3pWye" THEN PQube3pWye_pqube_phase_log(ctx, m, io)
    ELSE PQube1pLL_pqube_phase_log(ctx, m, io)

(***************************************************************************)
(* The handle as a state machine                                           *)
(***************************************************************************)
DeviceCodes == 0..5

\* the device at construction: register 8022 holds code
ConfigIo(code, at, kind) ==
    [dev |-> [a \in {REG_POWER_CONFIG} |-> <<code>>], faultAt |-> at, faultKind |-> kind]

Result(op, err, row) == [op |-> op, err |-> err, row |-> row]

NotDecoded == [err |-> "pending", val |-> Unset]

Init ==
    /\ state = "Unconfigured"
    /\ power_config = "none"
    /\ flags = {}
    /\ class = "none"
    /\ meas = {}
    /\ lines = [l \in {} |-> Unset]
    /\ freq = Unset
    /\ result = Result("none", "none", <<>>)
    /\ log = <<>>
    /\ ncalls = 0
    /\ nfaults = 0
    /\ fault_kind = "None"
    /\ streak = 0
    /\ input = None
    /\ decoded = NotDecoded

\* p = PQube(power_config=pc, meas_...=True for the lines in fl)
Construct ==
    /\ state = "Unconfigured"
    /\ \E pc \in PowerConfigs, fl \in SUBSET Lines, code \in DeviceCodes,
          at \in 0..1, kind \in FaultKinds :
          LET p == PQube_init(pc, fl, ConfigIo(code, at, kind))
          IN  /\ state' = IF p.err = "none" THEN "Ready" ELSE "Failed"
              /\ power_config' = pc
              /\ flags' = fl
              /\ class' = p.class
              /\ meas' = p.m
              /\ lines' = p.lines
              /\ freq' = p.freq
              /\ result' = Result("init", p.err, <<>>)
              /\ log' = p.log
              /\ fault_kind' = kind
    /\ UNCHANGED <<ncalls, nfaults, streak, input, decoded>>

\* the number of reads a fault-free update issues from the current state
NumReads == Len(update_measurements(class, Ctx(lines, freq), meas, Io(0, 0, fault_kind)).log)

\* the reads of the next call that may fault: 0 stands for none
FaultPositions == IF nfaults < MaxFaults THEN 0..NumReads ELSE {0}

\* p.measurements.update_measurements()
UpdateMeasurements ==
    /\ state = "Ready"
    /\ ncalls < MaxCalls
    /\ \E at \in FaultPositions :
          \E c \in {update_measurements(class, Ctx(lines, freq), meas, Io(ncalls + 1, at, fault_kind))} :
              /\ nfaults' = IF at = 0 THEN nfaults ELSE nfaults + 1
              /\ lines' = c.lines
              /\ freq' = c.freq
              /\ log' = c.log
              /\ result' = Result("update_measurements", c.err, <<>>)
    /\ ncalls' = ncalls + 1
    /\ streak' = 0
    /\ UNCHANGED <<state, power_config, flags, class, meas, fault_kind, input, decoded>>

\* variant of PqubeLog: the list of values is kept and extended from call to call
PqubeLog_m ==
    /\ state = "Ready"
    /\ ncalls < MaxCalls
    /\ \E at \in FaultPositions :
          \E r \in {PQube_pqube_log(class, Ctx(lines, freq), meas, Io(ncalls + 1, at, fault_kind))} :
              /\ nfaults' = IF at = 0 THEN nfaults ELSE nfaults + 1
              /\ lines' = r.ctx.lines
              /\ freq' = r.ctx.freq
              /\ log' = r.ctx.log
              /\ result' = Result("pqube_log", r.ctx.err, IF r.ctx.err = "none" THEN result.row \o r.row ELSE r.row)
              /\ streak' = IF r.ctx.err = "none" THEN streak + 1 ELSE 0
    /\ ncalls' = ncalls + 1
    /\ UNCHANGED <<state, power_config, flags, class, meas, fault_kind, input, decoded>>

\* p.pqube_log()
PqubeLog ==
    /\ state = "Ready"
    /\ ncalls < MaxCalls
    /\ \E at \in FaultPositions :
          \E r \in {PQube_pqube_log(class, Ctx(lines, freq), meas, Io(ncalls + 1, at, fault_kind))} :
              /\ nfaults' = IF at = 0 THEN nfaults ELSE nfaults + 1
              /\ lines' = r.ctx.lines
              /\ freq' = r.ctx.freq
              /\ log' = r.ctx.log
              /\ result' = Result("pqube_log", r.ctx.err, r.row)
              /\ streak' = IF r.ctx.err = "none" THEN streak + 1 ELSE 0
    /\ ncalls' = ncalls + 1
    /\ UNCHANGED <<state, power_config, flags, class, meas, fault_kind, input, decoded>>

Next == Construct \/ UpdateMeasurements \/ PqubeLog

Spec == Init /\ [][Next]_vars

TypeOK ==
    /\ state \in {"Unconfigured", "Ready", "Failed"}
    /\ ncalls \in 0..MaxCalls
    /\ nfaults \in 0..MaxFaults
    /\ meas \subseteq Lines
    /\ DOMAIN lines \subseteq Lines

(***************************************************************************)
(* The decoder on its own: convert_to_long applied to what a read returned *)
(***************************************************************************)
SampleWords == {0, 1, 4059, 16457, 32767, 32768, 49904, 65535}

DecoderInputs ==
    {None} \cup {RegList(<<>>)}
           \cup {RegList(<<w>>) : w \in SampleWords}
           \cup {RegList(<<hi, lo>>) : hi \in SampleWords, lo \in SampleWords}

InitDecode ==
    /\ state = "Unconfigured"
    /\ power_config = "none"
    /\ flags = {}
    /\ class = "none"
    /\ meas = {}
    /\ lines = [l \in {} |-> Unset]
    /\ freq = Unset
    /\ result = Result("none", "none", <<>>)
    /\ log = <<>>
    /\ ncalls = 0
    /\ nfaults = 0
    /\ fault_kind = "None"
    /\ streak = 0
    /\ input \in DecoderInputs
    /\ decoded = NotDecoded

Decode ==
    /\ decoded = NotDecoded
    /\ decoded' = convert_to_long(input)
    /\ UNCHANGED <<state, power_config, flags, class, meas, lines, freq, result,
                   log, ncalls, nfaults, fault_kind, streak, input>>

NextDecode == Decode

SpecDecode == InitDecode /\ [][NextDecode]_vars

(***************************************************************************)
(* Vocabulary of the properties                                            *)
(***************************************************************************)
Topologies == {"split_single_phase", "3p_delta", "3p_wye", "single_phase_l1_l2"}

\* the fixed column count of a topology's row
ColumnCount(pc) ==
    IF pc = "split_single_phase" THEN 23
    ELSE IF pc = "3p_delta" THEN 3
    ELSE IF pc = "3p_wye" THEN 34
    ELSE 1

\* the line flags that are valid for a topology
ValidFlags(pc) ==
    IF pc = "split_single_phase" THEN {"line1", "line2"}
    ELSE IF pc = "3p_delta" THEN {"line1_line2", "line2_line3", "line3_line1"}
    ELSE IF pc = "3p_wye" THEN {"line1", "line2", "line3"}
    ELSE {"line1_line2"}

\* the code register 8022 holds on a device wired in a topology
ExpectedCode(pc) ==
    IF pc = "split_single_phase" THEN 2
    ELSE IF pc = "3p_delta" THEN 4
    ELSE IF pc = "3p_wye" THEN 3
    ELSE 1

\* the lines or pairs of a topology, in the order of their columns
ColumnLines(pc) ==
    IF pc = "split_single_phase" THEN <<"line1", "line2">>
    ELSE IF pc = "3p_delta" THEN <<"line1_line2", "line2_line3", "line3_line1">>
    ELSE IF pc = "3p_wye" THEN <<"line1", "line2", "line3">>
    ELSE <<"line1_line2">>

HasFreq(pc) == pc \in {"split_single_phase", "3p_wye"}

\* the cells (indexed from 1) of the k-th line or pair of a topology
BlockOf(pc, k) ==
    IF HasFreq(pc) THEN (2 + 11 * (k - 1))..(1 + 11 * k) ELSE {k}

\* a read that faulted: no register list, or fewer registers than asked for
Faulted(e) == e.resp.isNone \/ Len(e.resp.regs) < e.nb

\* the last call was pqube_log and it returned a row
RowReturned == result.op = "pqube_log" /\ result.err = "none"

\* the last call was pqube_log and it raised
RowFailed == result.op = "pqube_log" /\ result.err # "none"

AfterInit == result.op = "init"

(***************************************************************************)
(* Properties                                                              *)
(***************************************************************************)
\* C1: for every topology and every valid line selection, a pqube_log call
\* whose reads all succeed returns a row, and the row has the topology's
\* fixed column count (23, 3, 1, 34).
C1_RowLength ==
    (result.op = "pqube_log" /\ \A i \in DOMAIN log : ~Faulted(log[i]))
        => (result.err = "none" /\ Len(result.row) = ColumnCount(power_config))

\* C2: in every returned row, after any earlier calls, every cell of the
\* block reserved for an unselected line or pair is blank, and the block of
\* every selected line is populated at its reserved position, starting with
\* that line's own v_rms.
C2_BlankLayout ==
    RowReturned =>
        \A k \in DOMAIN ColumnLines(power_config) :
            LET l == ColumnLines(power_config)[k]
                B == BlockOf(power_config, k)
            IN  /\ B \subseteq DOMAIN result.row
                /\ l \notin meas => \A i \in B : result.row[i] = Blank
                /\ l \in meas =>
                      /\ \A i \in B : result.row[i] # Blank
                      /\ l \in DOMAIN lines
                      /\ \E i \in B : /\ \A j \in B : i <= j
                                      /\ result.row[i] = lines[l].v_rms

C2_Witness ==
    /\ RowReturned
    /\ ncalls = 2
    /\ class = "PQube3pWye"
    /\ meas = {"line2"}
    /\ result.row[13] # Blank
    /\ result.row[2] = Blank

\* C3: in SplitSinglePhase and ThreePhaseWye, with at least one line
\* selected, the returned row has freq in cell 0 and, for every selected
\* line k, the 11 cells of block k hold line k's own 11 quantities in order.
C3_OwnValues ==
    (RowReturned /\ HasFreq(power_config) /\ meas # {}) =>
        /\ result.row[1] = freq
        /\ \A k \in DOMAIN ColumnLines(power_config) :
              LET l == ColumnLines(power_config)[k]
              IN  l \in meas =>
                    \A j \in 1..11 :
                        result.row[1 + 11 * (k - 1) + j] = lines[l][LinePQube_statements[j][1]]

\* C4: construction raises the configuration error exactly when some set
\* flag is outside the topology's valid set.
C4_FlagValidation ==
    (state # "Unconfigured" /\ power_config \in Topologies) =>
        /\ ~(flags \subseteq ValidFlags(power_config))
              => (state = "Failed" /\ result = Result("init", "ValueError", <<>>))
        /\ flags \subseteq ValidFlags(power_config)
              => ~(state = "Failed" /\ result.err = "ValueError")

C4_Witness ==
    /\ state = "Failed"
    /\ result.err = "ValueError"
    /\ power_config = "split_single_phase"
    /\ flags = {"line1", "line3"}

\* C5: construction with valid flags reads register 8022; a value different
\* from the topology's expected code raises the device mismatch error, and
\* Ready is reached only when the value equals the code.
C5_DeviceCode ==
    (AfterInit /\ power_config \in Topologies /\ flags \subseteq ValidFlags(power_config)) =>
        /\ Len(log) = 1
        /\ log[1].addr = REG_POWER_CONFIG
        /\ (~Faulted(log[1]) /\ log[1].resp.regs[1] # ExpectedCode(power_config))
              => (state = "Failed" /\ result.err = "AttributeError")
        /\ state = "Ready"
              => (~Faulted(log[1]) /\ log[1].resp.regs[1] = ExpectedCode(power_config))

C5_Witness ==
    /\ AfterInit
    /\ state = "Failed"
    /\ result.err = "AttributeError"
    /\ power_config = "3p_wye"
    /\ flags = {"line1", "line3"}
    /\ log[1].resp.regs = <<4>>

\* C6: a failed construction has constructed no line entity and read no
\* measurement register; an invalid flag combination is rejected with no
\* read other than, at most, the read of register 8022.
C6_FailBeforeEntities ==
    state = "Failed" =>
        /\ DOMAIN lines = {}
        /\ \A i \in DOMAIN log : log[i].addr = REG_POWER_CONFIG
        /\ Len(log) <= 1

C6_Witness ==
    /\ state = "Failed"
    /\ result.err = "AttributeError"
    /\ power_config = "single_phase_l1_l2"
    /\ flags = {"line1_line2"}
    /\ Len(log) = 1

\* the 32-bit pattern of a float, as its high and low 16-bit halves
HighHalf(f) == f.sign * 32768 + f.exponent * 128 + f.mantissa \div 65536

LowHalf(f) == f.mantissa % 65536

\* C7: for a pair (hi, lo) the decoder gives the float whose 32-bit pattern
\* is hi * 2^16 + lo, the first register being the high word, and
\* (0x4049, 0x0FDB) gives the float of pattern 0x40490FDB.
C7_DecodeHighFirst ==
    (decoded # NotDecoded /\ ~input.isNone /\ Len(input.regs) = 2) =>
        /\ decoded.err = "none"
        /\ HighHalf(decoded.val) = input.regs[1]
        /\ LowHalf(decoded.val) = input.regs[2]
        /\ input.regs = <<16457, 4059>> => decoded.val = Float(0, 128, 4788187)

C7_Witness ==
    /\ input = RegList(<<16457, 4059>>)
    /\ decoded = Return(Float(0, 128, 4788187))

\* C8: if any read of a pqube_log call faults, the call raises and returns
\* no row.
C8_NoPartialRow ==
    (result.op = "pqube_log" /\ \E i \in DOMAIN log : Faulted(log[i]))
        => (result.err # "none" /\ result.row = <<>>)

C8_Witness ==
    /\ RowFailed
    /\ ncalls = 2
    /\ Len(log) = 20
    /\ Faulted(log[20])
    /\ lines["line2"].i_tdd # NaN

\* the value of the attribute a read was made for
ValueAt(ls, f, dest) == IF dest[1] = "self" THEN f ELSE ls[dest[1]][dest[2]]

Max(S) == CHOOSE x \in S : \A y \in S : y <= x

\* C9: when a read returns fewer than 2 registers or no list, decoding
\* raises and gives no float, and the field the value was for is not
\* assigned: it keeps what it held before that read.
C9_FaultLeavesField ==
    [][\A i \in DOMAIN log' :
          (result'.op \in {"update_measurements", "pqube_log"} /\ Faulted(log'[i])) =>
              LET before == {j \in 1..(i - 1) : log'[j].dest = log'[i].dest}
              IN  /\ convert_to_long(log'[i].resp).err # "none"
                  /\ result'.err \in {"TypeError", "IndexError"}
                  /\ ValueAt(lines', freq', log'[i].dest) =
                        IF before = {}
                        THEN ValueAt(lines, freq, log'[i].dest)
                        ELSE convert_to_long(log'[Max(before)].resp).val]_vars

C9_Witness ==
    /\ result.op = "update_measurements"
    /\ result.err = "IndexError"
    /\ ncalls = 2
    /\ Len(log) = 5
    /\ log[5].dest = <<"line1", "i_rms">>
    /\ lines["line1"].i_rms # NaN

\* C10: every pqube_log call runs a complete update_measurements() first,
\* so every non-blank cell of a returned row is a value decoded from a read
\* issued during that same call.
C10_FreshCells ==
    RowReturned =>
        /\ Len(log) = NumReads
        /\ \A i \in DOMAIN result.row :
              result.row[i] # Blank =>
                  \E j \in DOMAIN log :
                      /\ ~Faulted(log[j])
                      /\ convert_to_long(log[j].resp) = Return(result.row[i])

C10_Witness ==
    /\ RowReturned
    /\ ncalls = 2
    /\ class = "PQube3pDelta"
    /\ meas = {"line1_line2", "line3_line1"}

\* C11: two consecutive pqube_log calls that both return a row give rows
\* of the same length with their blank cells at the same positions.
C11_SameLayout ==
    [][(RowReturned /\ result'.op = "pqube_log" /\ result'.err = "none" /\ ncalls' = ncalls + 1) =>
          /\ Len(result'.row) = Len(result.row)
          /\ \A i \in DOMAIN result.row : (result.row[i] = Blank) <=> (result'.row[i] = Blank)]_vars

C11_Witness ==
    /\ RowReturned
    /\ streak = 2
    /\ class = "PQube3pWye"
    /\ meas = {"line1", "line2"}
    /\ result.row[2] # Blank
    /\ result.row[34] = Blank

\* the last call was update_measurements, alone or inside pqube_log
UpdateCall == state = "Ready" /\ result.op \in {"update_measurements", "pqube_log"}

\* no read of the last call faulted
FaultFree == \A i \in DOMAIN log : ~Faulted(log[i])

\* the reads of the last call made at the frequency register
FreqReads == {i \in DOMAIN log : log[i].addr = REG_FREQ}

\* C12 as stated: in split_single_phase and 3p_wye every fault-free
\* update_measurements call, whatever the line selection (the empty one
\* included), reads 2 registers at 7026 and stores the decoded value as
\* freq, and updates every selected line; in 3p_delta and
\* single_phase_l1_l2 no frequency register is read.
C12_FreqEveryCall ==
    (UpdateCall /\ FaultFree) =>
        /\ HasFreq(power_config) =>
              \E i \in FreqReads :
                  /\ log[i].nb = 2
                  /\ freq = convert_to_long(log[i].resp).val
        /\ \A l \in meas : \E i \in DOMAIN log : log[i].dest[1] = l
        /\ ~HasFreq(power_config) => FreqReads = {}

\* C12 as the code has it: 3p_wye starts every update_measurements call
\* with a 2-register read at 7026, whatever the selection; split_single_phase
\* does so only when a line is selected and reads nothing when none is; a
\* fault-free call stores the last decoded frequency as freq and updates
\* every selected line; 3p_delta and single_phase_l1_l2 never read 7026.
C12_FreqRead ==
    UpdateCall =>
        /\ (power_config = "3p_wye" \/ (power_config = "split_single_phase" /\ meas # {})) =>
              /\ Len(log) >= 1
              /\ log[1].addr = REG_FREQ
              /\ log[1].nb = 2
              /\ log[1].dest = <<"self", "freq">>
              /\ FaultFree => freq = convert_to_long(log[Max(FreqReads)].resp).val
        /\ (power_config = "split_single_phase" /\ meas = {}) => log = <<>>
        /\ ~HasFreq(power_config) => FreqReads = {}
        /\ FaultFree => \A l \in meas : \E i \in DOMAIN log : log[i].dest[1] = l

C12_Witness ==
    /\ UpdateCall
    /\ result.op = "update_measurements"
    /\ result.err = "none"
    /\ power_config = "3p_wye"
    /\ meas = {}
    /\ Len(log) = 1
    /\ freq = convert_to_long(log[1].resp).val

\* the eleven quantities of a line-to-neutral entity, in the order they are
\* updated: the field, the entity's register id, the name of the register
\* constants of that quantity
Quantities ==
    << [field |-> "v_rms", id |-> "v_rms_register_id", reg |-> "V_RMS"],
       [field |-> "v_mag_fundamental", id |-> "v_mag_fundamental_register_id", reg |-> "V_MAG_FUNDAMENTAL"],
       [field |-> "v_angle_funamental", id |-> "v_angle_fundamental_register_id", reg |-> "V_ANGLE_FUNDAMENTAL"],
       [field |-> "i_rms", id |-> "i_rms_register_id", reg |-> "I_RMS"],
       [field |-> "i_mag_funamental", id |-> "i_mag_fundamental_register_id", reg |-> "I_MAG_FUNDAMENTAL"],
       [field |-> "i_angle_fundamental", id |-> "i_angle_fundamental_register_id", reg |-> "I_ANGLE_FUNDAMENTAL"],
       [field |-> "apparent_power", id |-> "s_register_id", reg |-> "VA"],
       [field |-> "real_power", id |-> "p_register_id", reg |-> "WATT"],
       [field |-> "reactive_power", id |-> "q_register_id", reg |-> "VAR_FUNDAMENTAL"],
       [field |-> "v_thd", id |-> "v_thd_register_id", reg |-> "V_THD"],
       [field |-> "i_tdd", id |-> "i_tdd_register_id", reg |-> "I_TDD"] >>

\* the quantities of the entities of a topology
QuantitiesOf(pc) == IF HasFreq(pc) THEN Quantities ELSE SubSeq(Quantities, 1, 1)

\* the position of a line or pair among the lines of its topology
LineIndex(pc, l) == CHOOSE k \in DOMAIN ColumnLines(pc) : ColumnLines(pc)[k] = l

\* the register constants of split_single_phase, by quantity and line
PQubeSplit1p_byLine ==
    LET R == PQubeSplit1p_REG
    IN  [V_RMS |-> <<R.V_RMS_L1, R.V_RMS_L2>>,
         V_MAG_FUNDAMENTAL |-> <<R.V_MAG_FUNDAMENTAL_L1, R.V_MAG_FUNDAMENTAL_L2>>,
         V_ANGLE_FUNDAMENTAL |-> <<R.V_ANGLE_FUNDAMENTAL_L1, R.V_ANGLE_FUNDAMENTAL_L2>>,
         I_RMS |-> <<R.I_RMS_L1, R.I_RMS_L2>>,
         I_MAG_FUNDAMENTAL |-> <<R.I_MAG_FUNDAMENTAL_L1, R.I_MAG_FUNDAMENTAL_L2>>,
         I_ANGLE_FUNDAMENTAL |-> <<R.I_ANGLE_FUNDAMENTAL_L1, R.I_ANGLE_FUNDAMENTAL_L2>>,
         VA |-> <<R.VA_L1, R.VA_L2>>,
         WATT |-> <<R.WATT_L1, R.WATT_L2>>,
         VAR_FUNDAMENTAL |-> <<R.VAR_FUNDAMENTAL_L1, R.VAR_FUNDAMENTAL_L2>>,
         V_THD |-> <<R.V_THD_L1, R.V_THD_L2>>,
         I_TDD |-> <<R.I_TDD_L1, R.I_TDD_L2>>]

\* the base address the register constants of a topology give to a quantity
\* of a line or pair
RegisterOf(pc, l, q) ==
    IF pc = "split_single_phase" THEN PQubeSplit1p_byLine[q.reg][LineIndex(pc, l)]
    ELSE IF pc = "3p_wye" THEN PQube3pWye_REG[q.reg][LineIndex(pc, l)]
    ELSE IF pc = "3p_delta"
    THEN <<PQube3pDelta_REG.V_L1_L2, PQube3pDelta_REG.V_L2_L3, PQube3pDelta_REG.V_L3_L1>>[LineIndex(pc, l)]
    ELSE PQube1pLL_REG.V_L1_L2

\* the registers of a line or pair: the addresses of its quantities
RegisterSet(pc, l) ==
    {RegisterOf(pc, l, QuantitiesOf(pc)[k]) : k \in DOMAIN QuantitiesOf(pc)}

\* the reads of the last call made for the entity of a line or pair
ReadsOf(l) == {i \in DOMAIN log : log[i].dest[1] = l}

Min(S) == CHOOSE x \in S : \A y \in S : x <= y

\* C13: a fault-free update_line_measurements on a line-to-neutral entity
\* issues exactly 11 reads of 2 registers, one per quantity, each at the
\* base address of that quantity of that line, and stores each decoded
\* value in the field of that quantity; on a line-to-line entity it issues
\* exactly one read of 2 registers at the v_rms address and stores it in
\* v_rms.
C13_OneReadPerQuantity ==
    (UpdateCall /\ FaultFree) =>
        \A l \in meas :
            LET Q == QuantitiesOf(power_config)
            IN  /\ Cardinality(ReadsOf(l)) = Len(Q)
                /\ \A k \in DOMAIN Q :
                      LET i == Min(ReadsOf(l)) + k - 1
                      IN  /\ i \in ReadsOf(l)
                          /\ log[i].nb = 2
                          /\ log[i].dest = <<l, Q[k].field>>
                          /\ log[i].addr = RegisterOf(power_config, l, Q[k])
                          /\ lines[l][Q[k].field] = convert_to_long(log[i].resp).val

\* the same, taking as the address of a quantity the register id held by
\* the entity itself
C13_ReadsOwnRegisterIds ==
    (UpdateCall /\ FaultFree) =>
        \A l \in meas :
            LET Q == QuantitiesOf(power_config)
            IN  /\ Cardinality(ReadsOf(l)) = Len(Q)
                /\ \A k \in DOMAIN Q :
                      LET i == Min(ReadsOf(l)) + k - 1
                      IN  /\ i \in ReadsOf(l)
                          /\ log[i].nb = 2
                          /\ log[i].dest = <<l, Q[k].field>>
                          /\ log[i].addr = lines[l][Q[k].id]
                          /\ lines[l][Q[k].field] = convert_to_long(log[i].resp).val

\* C14: during update_measurements and pqube_log no register of an
\* unselected line or pair is read, in any topology and for any selection,
\* and update_measurements skips an unselected line without raising.
C14_NoUnselectedReads ==
    UpdateCall =>
        /\ \A i \in DOMAIN log :
              \A l \in ValidFlags(power_config) \ meas :
                  log[i].addr \notin RegisterSet(power_config, l)
        /\ (result.op = "update_measurements" /\ FaultFree) => result.err = "none"

\* the reads of a log that come before its last one
Earlier(lg) == 1..(Len(lg) - 1)

\* C15: update_measurements is fail-fast: when a read faults the call
\* raises at that read and issues no further read; every field assigned
\* before the fault holds the value newly decoded for it and every field not
\* yet assigned keeps the value it had before the call.
C15_FailFast ==
    [][(UpdateCall' /\ ncalls' = ncalls + 1 /\ ~FaultFree') =>
          /\ Faulted(log'[Len(log')])
          /\ \A i \in Earlier(log') : ~Faulted(log'[i])
          /\ result'.err \in {"TypeError", "IndexError"}
          /\ \A i \in Earlier(log') :
                \/ ValueAt(lines', freq', log'[i].dest) = convert_to_long(log'[i].resp).val
                \/ \E j \in (i + 1)..(Len(log') - 1) : log'[j].dest = log'[i].dest
          /\ freq' # freq => \E j \in Earlier(log') : log'[j].dest = <<"self", "freq">>
          /\ \A l \in DOMAIN lines : \A k \in DOMAIN QuantitiesOf(power_config) :
                lines'[l][Quantities[k].field] # lines[l][Quantities[k].field] =>
                    \E j \in Earlier(log') : log'[j].dest = <<l, Quantities[k].field>>]_vars

C15_Witness ==
    /\ UpdateCall
    /\ result.op = "update_measurements"
    /\ result.err = "TypeError"
    /\ ncalls = 2
    /\ power_config = "3p_wye"
    /\ meas = {"line1", "line2"}
    /\ Len(log) = 14
    /\ Faulted(log[14])
    /\ lines["line2"].v_rms = convert_to_long(log[13].resp).val
    /\ lines["line2"].v_mag_fundamental # NaN
    /\ lines["line2"].v_mag_fundamental # convert_to_long(log[14].resp).val

\* C16: an entity has 11 measurement fields (line-to-neutral) or 1
\* (line-to-line); every one is NaN from construction until the first update
\* call, and after every fault-free update each holds a value decoded during
\* that call.
C16_NaNThenDecoded ==
    state = "Ready" =>
        \A l \in DOMAIN lines :
            LET Q == QuantitiesOf(power_config)
            IN  /\ DOMAIN lines[l] =
                      {"class"} \cup {Q[k].field : k \in DOMAIN Q} \cup {Q[k].id : k \in DOMAIN Q}
                /\ \A k \in DOMAIN Q :
                      /\ AfterInit => lines[l][Q[k].field] = NaN
                      /\ (UpdateCall /\ FaultFree) =>
                            \E j \in DOMAIN log :
                                /\ log[j].dest = <<l, Q[k].field>>
                                /\ lines[l][Q[k].field] = convert_to_long(log[j].resp).val

C16_Witness ==
    /\ UpdateCall
    /\ FaultFree
    /\ ncalls = 1
    /\ power_config = "split_single_phase"
    /\ meas = {"line1", "line2"}
    /\ Len(log) = 24
    /\ lines["line2"].i_tdd = convert_to_long(log[24].resp).val
    /\ lines["line2"].i_tdd # NaN

\* the register ids an entity was built with
RegisterIds(e) == [n \in {Quantities[k].id : k \in DOMAIN Quantities} \cap DOMAIN e |-> e[n]]

\* C17: a handle becomes Ready once, at construction, and stays Ready; a
\* Ready handle has exactly one entity per selected line or pair, and after
\* any call, successful or failed, its topology, line selection and
\* entities are those it was constructed with.
C17_Lifecycle ==
    [][/\ state' = "Ready" =>
             /\ state \in {"Unconfigured", "Ready"}
             /\ meas' \subseteq ValidFlags(power_config')
             /\ DOMAIN lines' = meas'
             /\ \A l \in meas' :
                   lines'[l].class = IF HasFreq(power_config') THEN "LinePQube" ELSE "LToLPQube"
       /\ state = "Ready" =>
             /\ state' = "Ready"
             /\ result'.op # "init"
             /\ power_config' = power_config
             /\ class' = class
             /\ flags' = flags
             /\ meas' = meas
             /\ DOMAIN lines' = DOMAIN lines
             /\ \A l \in DOMAIN lines :
                   /\ lines'[l].class = lines[l].class
                   /\ RegisterIds(lines'[l]) = RegisterIds(lines[l])]_vars

C17_Witness ==
    /\ state = "Ready"
    /\ ncalls = 2
    /\ result.op = "update_measurements"
    /\ result.err = "IndexError"
    /\ power_config = "3p_delta"
    /\ meas = {"line1_line2", "line3_line1"}
    /\ DOMAIN lines = meas
    /\ lines["line1_line2"].v_rms # NaN

\* C18: within the register map of a topology the base addresses of
\* distinct (line, quantity) pairs are pairwise distinct and differ from
\* 7026 and 8022; in 3p_wye line Lk reads each quantity at the k-th entry of
\* that quantity's list of three addresses.
C18_DistinctAddresses ==
    state = "Ready" =>
        LET Q == QuantitiesOf(power_config)
        IN  \A l1 \in DOMAIN lines : \A k1 \in DOMAIN Q :
                /\ lines[l1][Q[k1].id] \notin {REG_FREQ, REG_POWER_CONFIG}
                /\ power_config = "3p_wye" =>
                      lines[l1][Q[k1].id] = PQube3pWye_REG[Q[k1].reg][LineIndex(power_config, l1)]
                /\ \A l2 \in DOMAIN lines : \A k2 \in DOMAIN Q :
                      <<l1, k1>> # <<l2, k2>> => lines[l1][Q[k1].id] # lines[l2][Q[k2].id]

\* C19 as stated: a fault-free update_measurements with n selected lines
\* issues exactly 11 * n + 1 reads of 2 registers in split_single_phase and
\* 3p_wye, 7026 being read exactly once whatever n is, and exactly n in
\* 3p_delta and single_phase_l1_l2.
C19_ReadCountOnceFreq ==
    (UpdateCall /\ FaultFree) =>
        /\ \A i \in DOMAIN log : log[i].nb = 2
        /\ HasFreq(power_config) =>
              /\ Len(log) = 11 * Cardinality(meas) + 1
              /\ Cardinality(FreqReads) = 1
        /\ ~HasFreq(power_config) => Len(log) = Cardinality(meas)

\* C19 as the code has it: 11 * n + 1 reads in 3p_wye, 7026 being read
\* once; 12 * n in split_single_phase, 7026 being read once before each
\* selected line; n in 3p_delta and single_phase_l1_l2.
C19_ReadCount ==
    (UpdateCall /\ FaultFree) =>
        /\ \A i \in DOMAIN log : log[i].nb = 2
        /\ power_config = "3p_wye" =>
              /\ Len(log) = 11 * Cardinality(meas) + 1
              /\ Cardinality(FreqReads) = 1
        /\ power_config = "split_single_phase" =>
              /\ Len(log) = 12 * Cardinality(meas)
              /\ Cardinality(FreqReads) = Cardinality(meas)
              /\ \A l \in meas : log[Min(ReadsOf(l)) - 1].addr = REG_FREQ
        /\ ~HasFreq(power_config) => Len(log) = Cardinality(meas)

C19_Witness ==
    /\ UpdateCall
    /\ FaultFree
    /\ result.op = "update_measurements"
    /\ power_config = "split_single_phase"
    /\ meas = {"line1", "line2"}
    /\ Len(log) = 24
    /\ FreqReads = {1, 13}

\* the row of a topology in which every cell is blank
BlankRow(pc) == [i \in 1..ColumnCount(pc) |-> Blank]

\* C20 as stated: with no line or pair selected pqube_log returns, in every
\* topology, a row of the fixed length whose cells are all blank, the
\* frequency cell included, and issues no register read.
C20_BlankRowNoRead ==
    (state = "Ready" /\ result.op = "pqube_log" /\ meas = {}) =>
        /\ result.err = "none"
        /\ result.row = BlankRow(power_config)
        /\ log = <<>>

\* C20 as the code has it: with no line or pair selected pqube_log issues
\* no read and returns the all-blank row in split_single_phase, 3p_delta
\* and single_phase_l1_l2; in 3p_wye it issues one read of 2 registers at
\* 7026, returns the all-blank row when that read succeeds and raises when
\* it faults.
C20_BlankRow ==
    (state = "Ready" /\ result.op = "pqube_log" /\ meas = {}) =>
        IF power_config = "3p_wye"
        THEN /\ Len(log) = 1
             /\ log[1].addr = REG_FREQ
             /\ log[1].nb = 2
             /\ IF Faulted(log[1])
                THEN result.err \in {"TypeError", "IndexError"} /\ result.row = <<>>
                ELSE result.err = "none" /\ result.row = BlankRow(power_config)
        ELSE /\ log = <<>>
             /\ result.err = "none"
             /\ result.row = BlankRow(power_config)

C20_Witness ==
    /\ RowReturned
    /\ power_config = "3p_wye"
    /\ meas = {}
    /\ Len(log) = 1
    /\ freq = convert_to_long(log[1].resp).val
    /\ result.row = BlankRow("3p_wye")

====
